---- MODULE Spec2Model ----
(***************************************************************************)
(* Design Studio API (src/main.py): request handlers over a document       *)
(* store.  The store holds three collections used by the handlers modelled *)
(* here (product, order, project); every handler is one action of Spec.    *)
(* ConcSpec splits the project handlers at their store calls, so that      *)
(* concurrent requests interleave the way the server's worker threads do.  *)
(***************************************************************************)
EXTENDS Integers, Sequences, FiniteSets

(***************************************************************************)
(* Bounds of the model.                                                    *)
(***************************************************************************)
\* documents plus draft and comment entries the store holds at most
MaxSize == 3
\* last reading of the wall clock
MaxClock == 1
\* requests in flight in ConcSpec
MaxReqs == 3

(***************************************************************************)
(* Python values.  A value is a tuple whose first element names its type,  *)
(* so that isinstance and == can be evaluated on any pair of values.       *)
(* A str carries a tuple of parts standing for its characters.             *)
(***************************************************************************)
None == <<"none">>
ObjectIdOf(n) == <<"ObjectId", n>>
Datetime(t) == <<"datetime", t>>
Str(parts) == <<"str", parts>>
Num(n) == <<"num", n>>
Bool(b) == <<"bool", b>>
List(s) == <<"list", s>>
Dict(d) == <<"dict", d>>

IsDatetime(v) == v[1] = "datetime"

\* the 24 hex digits of ObjectId n, an identifier that is no ObjectId, "None"
HexStr(n) == Str(<<"hex", n>>)
BadIdStr == Str(<<"xyz">>)
NoneStr == Str(<<"None">>)

\* str(v) for the values serialize_doc applies it to
PyStr(v) ==
    CASE v[1] = "ObjectId" -> HexStr(v[2])
      [] v[1] = "none" -> NoneStr
      [] v[1] = "str" -> v
      [] OTHER -> Str(<<"repr", v[1]>>)

\* datetime.isoformat()
Isoformat(v) == Str(<<"iso", v[2]>>)

\* ObjectId.is_valid(s) and ObjectId(s); ObjectId(s) raises InvalidId otherwise
ObjectIdValid(s) == s[1] = "str" /\ s[2][1] = "hex"
ObjectId(s) == ObjectIdOf(s[2][2])

\* dict.get(k)
Get(doc, k) == IF k \in DOMAIN doc THEN doc[k] ELSE None

\* doc[k] = v on a dict: $set on a stored document
SetField(doc, k, v) ==
    [f \in DOMAIN doc \cup {k} |-> IF f = k THEN v ELSE doc[f]]

\* doc.pop(k, None)
Pop(doc, k) == [f \in DOMAIN doc \ {k} |-> doc[f]]

\* serialize_doc: id = str(doc.get("_id")), _id removed, datetimes to ISO text
serialize_doc(doc) ==
    IF DOMAIN doc = {}
    THEN doc
    ELSE LET d1 == SetField(doc, "id", PyStr(Get(doc, "_id")))
             d2 == Pop(d1, "_id")
         IN [k \in DOMAIN d2 |->
                IF IsDatetime(d2[k]) THEN Isoformat(d2[k]) ELSE d2[k]]

(***************************************************************************)
(* State.                                                                  *)
(***************************************************************************)
VARIABLES
    product,    \* db["product"], in store order
    order,      \* db["order"]
    project,    \* db["project"]
    clock,      \* datetime.now(timezone.utc)
    resp,       \* the last response sent: [op, arg, status, body]
    reser,      \* serialize_doc applied to the last response's document
    reqs        \* ConcSpec: the requests in flight

vars == <<product, order, project, clock, resp, reser, reqs>>
store == <<product, order, project>>

(***************************************************************************)
(* The document store (pymongo collections).                               *)
(***************************************************************************)
\* the identifier the store generates for the next inserted document
NextId == ObjectIdOf(Len(product) + Len(order) + Len(project) + 1)

\* create_document(collection, data): one insert, returns the new id
create_document(coll, data) == Append(coll, SetField(data, "_id", NextId))

\* a document matches a filter when it holds every field of it
Matches(doc, filter) == \A k \in DOMAIN filter : Get(doc, k) = filter[k]

\* find(filter): the matching documents in store order
find(coll, filter) == SelectSeq(coll, LAMBDA d : Matches(d, filter))

\* find_one(filter): the first match, or nothing (the empty document here)
find_one(coll, filter) ==
    LET hits == find(coll, filter) IN IF hits = <<>> THEN <<>> ELSE Head(hits)

Found(doc) == DOMAIN doc # {}

\* the list a document holds under k: an absent field counts as empty
ListOf(doc, k) == IF k \in DOMAIN doc THEN doc[k][2] ELSE <<>>

\* $set of an update document applied after its array operators
ApplySet(doc, update) ==
    [k \in DOMAIN doc \cup DOMAIN update.set |->
        IF k \in DOMAIN update.set THEN update.set[k] ELSE doc[k]]

\* ApplyUpdate with the new entry put first (a $push with $position 0)
ApplyUpdatePrepend(doc, update) ==
    ApplySet([k \in DOMAIN doc \cup DOMAIN update.push |->
                 IF k \in DOMAIN update.push
                 THEN List(<<update.push[k]>> \o ListOf(doc, k))
                 ELSE doc[k]], update)

\* ApplyUpdate with $addToSet in place of $push: an entry equal to one the
\* array holds is not added
ApplyUpdateAddToSet(doc, update) ==
    ApplySet([k \in DOMAIN doc \cup DOMAIN update.push |->
                 IF k \in DOMAIN update.push
                 THEN IF \E i \in DOMAIN ListOf(doc, k) :
                            ListOf(doc, k)[i] = update.push[k]
                      THEN List(ListOf(doc, k))
                      ELSE List(Append(ListOf(doc, k), update.push[k]))
                 ELSE doc[k]], update)

\* an update document {"$push": push, "$set": set} applied to one document:
\* $push appends to the end of the array
ApplyUpdate(doc, update) ==
    ApplySet([k \in DOMAIN doc \cup DOMAIN update.push |->
                 IF k \in DOMAIN update.push
                 THEN List(Append(ListOf(doc, k), update.push[k]))
                 ELSE doc[k]], update)

\* update_one(filter, update).matched_count
matched_count(coll, filter) == IF find(coll, filter) = <<>> THEN 0 ELSE 1

\* the first document of coll that matches
FirstMatch(coll, filter) ==
    CHOOSE i \in DOMAIN coll :
        /\ Matches(coll[i], filter)
        /\ \A j \in 1..(i - 1) : ~Matches(coll[j], filter)

\* update_one with upsert=True: no match inserts a document made of the
\* filter and the update
update_one_upsert(coll, filter, update) ==
    IF matched_count(coll, filter) = 0
    THEN Append(coll, ApplyUpdate(filter, update))
    ELSE [coll EXCEPT ![FirstMatch(coll, filter)] =
             ApplyUpdate(coll[FirstMatch(coll, filter)], update)]

\* update_one(filter, update): the first match is updated, in one atomic
\* step; nothing is written when nothing matches
update_one(coll, filter, update) ==
    IF matched_count(coll, filter) = 0
    THEN coll
    ELSE [coll EXCEPT ![FirstMatch(coll, filter)] =
             ApplyUpdate(coll[FirstMatch(coll, filter)], update)]

\* cursor.limit(n) for n >= 1
limit(docs, n) == IF Len(docs) <= n THEN docs ELSE SubSeq(docs, 1, n)

\* [serialize_doc(d) for d in docs]
SerializeAll(docs) == [i \in DOMAIN docs |-> serialize_doc(docs[i])]

\* a response, with the request it answers: the path id, the other input
Response(op, arg, data, status, body) ==
    [op |-> op, arg |-> arg, data |-> data, status |-> status, body |-> body]

\* documents and entries held by the store
Entries(doc) == Len(ListOf(doc, "drafts")) + Len(ListOf(doc, "comments"))
RECURSIVE SumEntries(_)
SumEntries(s) == IF s = <<>> THEN 0 ELSE Entries(Head(s)) + SumEntries(Tail(s))
StoreSize == Len(product) + Len(order) + Len(project) + SumEntries(project)

NoDoc == <<>>

(***************************************************************************)
(* Request inputs.                                                         *)
(***************************************************************************)
\* ProductIn payloads: price (ge=0), featured, rating (in tenths, default 4.8)
ProductPayloads ==
    {[price |-> -1, featured |-> TRUE, rating |-> 48],
     [price |-> 0, featured |-> FALSE, rating |-> 48],
     [price |-> 10, featured |-> TRUE, rating |-> 40],
     [price |-> 10, featured |-> TRUE, rating |-> 48]}
\* CheckoutRequest payloads of one item: email syntax, license, quantity (ge=1)
Carts ==
    {[emailValid |-> TRUE, license |-> "personal", quantity |-> 1],
     [emailValid |-> TRUE, license |-> "commercial", quantity |-> 2],
     [emailValid |-> TRUE, license |-> "trial", quantity |-> 1],
     [emailValid |-> TRUE, license |-> "personal", quantity |-> 0],
     [emailValid |-> FALSE, license |-> "personal", quantity |-> 1]}
\* path parameters: an id the store never assigns, the ids of the first two
\* documents, and a malformed id
IdInputs == {HexStr(0), HexStr(1), HexStr(2), BadIdStr}
Urls == {"u1", "u2"}
Messages == {"m1"}
\* limit: int = 8
DefaultLimit == 8
Limits == {1, DefaultLimit}

\* a request slot no request has taken
Idle == [pc |-> "idle", op |-> "none", pid |-> None, url |-> "", now |-> 0,
         later |-> 0, matched |-> 0, status |-> 0]

Init ==
    /\ product = <<>>
    /\ order = <<>>
    /\ project = <<>>
    /\ clock = 0
    /\ resp = Response("none", None, None, 0, None)
    /\ reser = NoDoc
    /\ reqs = [r \in 1..MaxReqs |-> Idle]

(***************************************************************************)
(* Request validation (pydantic models): a request that fails it is        *)
(* answered 422 before the handler runs.                                   *)
(***************************************************************************)
ProductInValid(price) == price >= 0
OrderItemValid(license, quantity) ==
    license \in {"personal", "commercial"} /\ quantity >= 1
Rejected(op, data) == Response(op, None, data, 422, None)

(***************************************************************************)
(* Products and orders.                                                    *)
(***************************************************************************)
\* GET /api/products/featured
featured_products(n) ==
    /\ resp' = Response("featured_products", None, Num(n), 200,
           List(SerializeAll(limit(find(product, [featured |-> Bool(TRUE)]), n))))
    /\ reser' = NoDoc
    /\ UNCHANGED <<product, order, project, clock, reqs>>

\* GET /api/products/{product_id}: the 404 is raised inside the try block and
\* caught by its "except Exception", as InvalidId is
get_product(product_id) ==
    LET raised ==
            IF ~ObjectIdValid(product_id) THEN "InvalidId"
            ELSE IF ~Found(find_one(product, [_id |-> ObjectId(product_id)]))
                 THEN "HTTPException(404)"
                 ELSE "none"
    IN /\ resp' = IF raised # "none"
                  THEN Response("get_product", product_id, None, 400, None)
                  ELSE Response("get_product", product_id, None, 200,
                           Dict(serialize_doc(
                               find_one(product, [_id |-> ObjectId(product_id)]))))
       /\ reser' = NoDoc
       /\ UNCHANGED <<product, order, project, clock, reqs>>

\* POST /api/products
create_product(price, featured, rating) ==
    /\ reser' = NoDoc
    /\ UNCHANGED <<order, project, clock, reqs>>
    /\ IF ~ProductInValid(price)
       THEN /\ resp' = Rejected("create_product", Num(price))
            /\ UNCHANGED product
       ELSE LET _id == PyStr(NextId)
            IN /\ StoreSize < MaxSize
               /\ product' = create_document(product,
                      [price |-> Num(price), featured |-> Bool(featured),
                       rating |-> Num(rating)])
               /\ resp' = Response("create_product", None, Num(price), 201,
                      Dict(serialize_doc(
                          find_one(product', [_id |-> ObjectId(_id)]))))

\* POST /api/checkout, a cart of one item
checkout(emailValid, license, quantity) ==
    /\ reser' = NoDoc
    /\ UNCHANGED <<product, project, clock, reqs>>
    /\ IF ~(emailValid /\ OrderItemValid(license, quantity))
       THEN /\ resp' = Rejected("checkout", Str(<<license>>))
            /\ UNCHANGED order
       ELSE LET item == [product_id |-> Str(<<"p1">>),
                         license |-> Str(<<license>>),
                         quantity |-> Num(quantity)]
                order_doc == [items |-> List(<<item>>),
                              status |-> Str(<<"paid">>),
                              download_links |->
                                  List(<<Str(<<"/downloads/", "p1", ".zip">>)>>),
                              invoice_url |-> Str(<<"/invoices/mock.pdf">>)]
                order_id == PyStr(NextId)
            IN /\ StoreSize < MaxSize
               /\ order' = create_document(order, order_doc)
               /\ resp' = Response("checkout", None, Str(<<license>>), 201,
                      Dict(serialize_doc(
                          find_one(order', [_id |-> ObjectId(order_id)]))))

(***************************************************************************)
(* Projects.                                                               *)
(***************************************************************************)
\* DraftUpdate that also sends the project back to review
DraftUpdateReopens(url, now) ==
    [push |-> [drafts |-> [url |-> Str(<<url>>), uploaded_at |-> Datetime(now)]],
     set |-> [updated_at |-> Datetime(now), status |-> Str(<<"in_progress">>)]]

\* upload_draft's update document: line 191
DraftUpdate(url, now) ==
    [push |-> [drafts |-> [url |-> Str(<<url>>), uploaded_at |-> Datetime(now)]],
     set |-> [updated_at |-> Datetime(now)]]

\* CommentUpdate without its $set
CommentUpdateNoTouch(message, created, updated) ==
    [push |-> [comments |-> [author |-> Str(<<"client">>),
                              message |-> Str(<<message>>),
                              x |-> None, y |-> None,
                              created_at |-> Datetime(created),
                              status |-> Str(<<"open">>)]],
     set |-> <<>>]

\* add_comment's update document: lines 199-201
CommentUpdate(message, created, updated) ==
    [push |-> [comments |-> [author |-> Str(<<"client">>),
                              message |-> Str(<<message>>),
                              x |-> None, y |-> None,
                              created_at |-> Datetime(created),
                              status |-> Str(<<"open">>)]],
     set |-> [updated_at |-> Datetime(updated)]]

\* ApproveUpdate that keeps the approved_at a project already has
ApproveUpdateNoStamp(now) ==
    [push |-> <<>>, set |-> [status |-> Str(<<"approved">>)]]

\* approve_project's update document: line 209
ApproveUpdate(now) ==
    [push |-> <<>>,
     set |-> [status |-> Str(<<"approved">>), approved_at |-> Datetime(now)]]

\* the part the three handlers share: ObjectId(project_id) raises InvalidId,
\* which nothing catches (500); no match is 404; else the document is re-read
Mutate(op, project_id, data, update) ==
    /\ reser' = NoDoc
    /\ UNCHANGED <<product, order, reqs>>
    /\ IF ~ObjectIdValid(project_id)
       THEN /\ resp' = Response(op, project_id, data, 500, None)
            /\ UNCHANGED project
       ELSE LET filter == [_id |-> ObjectId(project_id)]
            IN /\ project' = update_one(project, filter, update)
               /\ resp' = IF matched_count(project, filter) = 0
                          THEN Response(op, project_id, data, 404, None)
                          ELSE Response(op, project_id, data, 200,
                                   Dict(serialize_doc(find_one(project', filter))))

\* the document create_project inserts: the payload's fields are passed through
NewProject ==
    [status |-> Str(<<"in_progress">>), drafts |-> List(<<>>),
     comments |-> List(<<>>), history |-> List(<<>>)]

\* POST /api/projects
create_project(emailValid) ==
    /\ reser' = NoDoc
    /\ UNCHANGED <<product, order, clock, reqs>>
    /\ IF ~emailValid
       THEN /\ resp' = Rejected("create_project", None)
            /\ UNCHANGED project
       ELSE LET pid == PyStr(NextId)
            IN /\ StoreSize < MaxSize
               /\ project' = create_document(project,
                      NewProject)
               /\ resp' = Response("create_project", None, None, 201,
                      Dict(serialize_doc(
                          find_one(project', [_id |-> ObjectId(pid)]))))

\* whether the store has room for the entry a matching update appends
Room(project_id) ==
    IF ~ObjectIdValid(project_id) THEN TRUE
    ELSE IF matched_count(project, [_id |-> ObjectId(project_id)]) = 0 THEN TRUE
    ELSE StoreSize < MaxSize

\* datetime.now(timezone.utc): a reading no earlier than the last one
Readings(last) == {t \in {last, last + 1} : t <= MaxClock}

\* POST /api/projects/{project_id}/upload-draft
upload_draft(project_id, url) ==
    /\ Room(project_id)
    /\ \E now \in Readings(clock) :
          /\ clock' = now
          /\ Mutate("upload_draft", project_id, Str(<<url>>),
                    DraftUpdate(url, now))

\* POST /api/projects/{project_id}/comment: the clock is read twice
add_comment(project_id, message) ==
    /\ Room(project_id)
    /\ \E created \in Readings(clock) : \E updated \in Readings(created) :
          /\ clock' = updated
          /\ Mutate("add_comment", project_id, Str(<<message>>),
                    CommentUpdate(message, created, updated))

\* POST /api/projects/{project_id}/approve
approve_project(project_id) ==
    \E now \in Readings(clock) :
        /\ clock' = now
        /\ Mutate("approve_project", project_id, None, ApproveUpdate(now))

\* serialize_doc applied to a document it has already serialized
SerializeAgain ==
    /\ resp.body[1] = "dict"
    /\ reser = NoDoc
    /\ reser' = serialize_doc(resp.body[2])
    /\ UNCHANGED <<product, order, project, clock, resp, reqs>>

ProductNext ==
    \/ \E n \in Limits : featured_products(n)
    \/ \E id \in IdInputs : get_product(id)
    \/ \E p \in ProductPayloads : create_product(p.price, p.featured, p.rating)
    \/ \E c \in Carts : checkout(c.emailValid, c.license, c.quantity)

ProjectNext ==
    \/ \E e \in BOOLEAN : create_project(e)
    \/ \E id \in IdInputs, u \in Urls : upload_draft(id, u)
    \/ \E id \in IdInputs, m \in Messages : add_comment(id, m)
    \/ \E id \in IdInputs : approve_project(id)

\* every handler, over stores one entry short of MaxSize
Next == (ProductNext \/ ProjectNext) /\ StoreSize' < MaxSize

SerNext ==
    \/ \E p \in ProductPayloads : create_product(p.price, p.featured, p.rating)
    \/ \E e \in BOOLEAN : create_project(e)
    \/ \E id \in IdInputs, u \in Urls : upload_draft(id, u)
    \/ \E id \in IdInputs : approve_project(id)
    \/ SerializeAgain

(***************************************************************************)
(* Concurrent requests on projects.  A request runs on its own worker: it  *)
(* computes its arguments (the clock readings, ObjectId(project_id)), then *)
(* sends one insert or update to the store, which applies it atomically,   *)
(* then re-reads the document and responds.  Steps of different requests   *)
(* interleave freely.                                                      *)
(***************************************************************************)
\* path parameters of the concurrent requests: the first project, a malformed id
ConcIds == {HexStr(1), BadIdStr}

\* requests take the slots in the order they arrive
Arrives(r) ==
    /\ reqs[r].pc = "idle"
    /\ \A q \in 1..(r - 1) : reqs[q].pc # "idle"

\* the request is received; up to the store call: lines 190, 200-201, 209
Receive(r, op, project_id, url) ==
    /\ Arrives(r)
    /\ \E now \in Readings(clock) : \E later \in Readings(now) :
          /\ op # "add_comment" => later = now
          /\ clock' = later
          /\ reqs' = [reqs EXCEPT ![r] =
                 [Idle EXCEPT !.op = op, !.pid = project_id, !.url = url,
                     !.now = now, !.later = later,
                     !.pc = IF ObjectIdValid(project_id) THEN "update" ELSE "done",
                     !.status = IF ObjectIdValid(project_id) THEN 0 ELSE 500]]
    /\ UNCHANGED <<product, order, project, resp, reser>>

\* the request's update document
UpdateOf(q) ==
    CASE q.op = "upload_draft" -> DraftUpdate(q.url, q.now)
      [] q.op = "add_comment" -> CommentUpdate(q.url, q.now, q.later)
      [] q.op = "approve_project" -> ApproveUpdate(q.now)

\* the store applies the request's update_one: lines 191, 201, 209; a request
\* that matched nothing raises its 404
StoreUpdate(r) ==
    LET q == reqs[r]
        filter == [_id |-> ObjectId(q.pid)]
    IN /\ q.pc = "update"
       /\ q.op # "create_project"
       /\ project' = update_one(project, filter, UpdateOf(q))
       /\ reqs' = [reqs EXCEPT ![r] =
              IF matched_count(project, filter) = 0
              THEN [q EXCEPT !.pc = "done", !.status = 404]
              ELSE [q EXCEPT !.pc = "find", !.matched = 1]]
       /\ UNCHANGED <<product, order, clock, resp, reser>>

\* POST /api/projects: the request is received, its document built
ReceiveCreate(r) ==
    /\ Arrives(r)
    /\ reqs' = [reqs EXCEPT ![r] =
           [Idle EXCEPT !.op = "create_project", !.pc = "update"]]
    /\ UNCHANGED <<product, order, project, clock, resp, reser>>

\* the store applies the insert of create_document: line 184
StoreInsert(r) ==
    /\ reqs[r].pc = "update"
    /\ reqs[r].op = "create_project"
    /\ project' = create_document(project,
           NewProject)
    /\ reqs' = [reqs EXCEPT ![r] =
           [@ EXCEPT !.pc = "find", !.matched = 1, !.pid = PyStr(NextId)]]
    /\ UNCHANGED <<product, order, clock, resp, reser>>

\* the document is read back (nothing deletes it) and the response sent:
\* lines 185, 194, 204, 212
Respond(r) ==
    LET q == reqs[r]
    IN /\ q.pc = "find"
       /\ Found(find_one(project, [_id |-> ObjectId(q.pid)]))
       /\ reqs' = [reqs EXCEPT ![r] =
              [q EXCEPT !.pc = "done",
                        !.status = IF q.op = "create_project" THEN 201 ELSE 200]]
       /\ UNCHANGED <<product, order, project, clock, resp, reser>>

ConcNext ==
    \E r \in 1..MaxReqs :
        \/ ReceiveCreate(r)
        \/ \E id \in ConcIds, u \in Urls : Receive(r, "upload_draft", id, u)
        \/ \E id \in ConcIds, m \in Messages : Receive(r, "add_comment", id, m)
        \/ \E id \in ConcIds : Receive(r, "approve_project", id, "")
        \/ StoreUpdate(r)
        \/ StoreInsert(r)
        \/ Respond(r)

Spec == Init /\ [][Next]_vars
ProductSpec == Init /\ [][ProductNext]_vars
ProjectSpec == Init /\ [][ProjectNext]_vars
SerSpec == Init /\ [][SerNext]_vars
ConcSpec == Init /\ [][ConcNext]_vars

(***************************************************************************)
(* Properties.                                                             *)
(***************************************************************************)
InProgress == Str(<<"in_progress">>)
Approved == Str(<<"approved">>)
DraftsOf(doc) == ListOf(doc, "drafts")
CommentsOf(doc) == ListOf(doc, "comments")
Last(s) == s[Len(s)]
MutatingOps == {"upload_draft", "add_comment", "approve_project"}

\* response r answers a successful mutation of document doc
Hit(r, doc) ==
    /\ r.op \in MutatingOps
    /\ r.status = 200
    /\ ObjectId(r.arg) = doc["_id"]

\* the path id of response r names no stored project
NoSuchProject(r) ==
    \/ ~ObjectIdValid(r.arg)
    \/ ~Found(find_one(project, [_id |-> ObjectId(r.arg)]))

\* C1: a project's status is always in_progress or approved, is in_progress
\* when the project is created, never leaves approved, and is not changed by
\* a step that adds a draft or a comment.
C1_StatusForward ==
    [][\A i \in DOMAIN project' :
          /\ project'[i]["status"] \in {InProgress, Approved}
          /\ i \notin DOMAIN project => project'[i]["status"] = InProgress
          /\ i \in DOMAIN project =>
                /\ project[i]["status"] = Approved =>
                       project'[i]["status"] = Approved
                /\ (\/ DraftsOf(project'[i]) # DraftsOf(project[i])
                    \/ CommentsOf(project'[i]) # CommentsOf(project[i])
                    \/ resp'.op \in {"upload_draft", "add_comment"})
                   => project'[i]["status"] = project[i]["status"]]_vars

\* a draft uploaded to an approved project, which stays approved
C1_Witness ==
    /\ resp.op = "upload_draft"
    /\ resp.status = 200
    /\ \E i \in DOMAIN project :
          /\ Hit(resp, project[i])
          /\ project[i]["status"] = Approved
          /\ DraftsOf(project[i]) # <<>>

\* C2 as claimed: once a project has an approved_at, no later request
\* changes it.
C2_ApprovedAtSetOnce ==
    [][\A i \in DOMAIN project :
          "approved_at" \in DOMAIN project[i] =>
              Get(project'[i], "approved_at") = project[i]["approved_at"]]_vars

\* C2 amended: approved_at is absent while the project is in_progress; every
\* successful approve, the first or a later one, sets it to that request's
\* clock reading and the status to approved; no other request changes it.
C2_ApprovedAtSetByEachApproval ==
    [][\A i \in DOMAIN project' :
          LET before == IF i \in DOMAIN project
                        THEN Get(project[i], "approved_at") ELSE None
              after == Get(project'[i], "approved_at")
              approval == resp'.op = "approve_project" /\ Hit(resp', project'[i])
          IN /\ project'[i]["status"] = InProgress => after = None
             /\ after # before => approval
             /\ approval => /\ after = Datetime(clock')
                            /\ project'[i]["status"] = Approved]_vars

\* a project approved at a reading later than the first one
C2_Witness ==
    /\ resp.op = "approve_project"
    /\ \E i \in DOMAIN project :
          /\ Hit(resp, project[i])
          /\ project[i]["status"] = Approved
          /\ Get(project[i], "approved_at") = Datetime(1)
          /\ DraftsOf(project[i]) # <<>>

IsPrefix(s, t) == Len(s) <= Len(t) /\ SubSeq(t, 1, Len(s)) = s

\* C3: drafts and comments are append-only.  A successful upload-draft adds
\* exactly one {url, uploaded_at} entry, with the request's url, at the end of
\* the target's drafts; a successful add-comment adds exactly one entry, with
\* status "open", at the end of its comments; every other entry of every
\* project, and every project, stays as it was.
C3_AppendOnly ==
    [][\A i \in DOMAIN project :
          LET d == DraftsOf(project[i])
              c == CommentsOf(project[i])
              d2 == DraftsOf(project'[i])
              c2 == CommentsOf(project'[i])
          IN /\ i \in DOMAIN project'
             /\ IF resp'.op = "upload_draft" /\ Hit(resp', project[i])
                THEN /\ Len(d2) = Len(d) + 1
                     /\ IsPrefix(d, d2)
                     /\ DOMAIN Last(d2) = {"url", "uploaded_at"}
                     /\ Last(d2)["url"] = resp'.data
                     /\ Last(d2)["uploaded_at"] = Datetime(clock')
                     /\ c2 = c
                ELSE IF resp'.op = "add_comment" /\ Hit(resp', project[i])
                THEN /\ Len(c2) = Len(c) + 1
                     /\ IsPrefix(c, c2)
                     /\ Last(c2)["message"] = resp'.data
                     /\ Last(c2)["status"] = Str(<<"open">>)
                     /\ d2 = d
                ELSE d2 = d /\ c2 = c]_vars

\* two sequential uploads to a new project: its drafts are the two urls in
\* call order
C3_Witness ==
    /\ resp.op = "upload_draft"
    /\ resp.data = Str(<<"u1">>)
    /\ \E i \in DOMAIN project :
          /\ Hit(resp, project[i])
          /\ Len(DraftsOf(project[i])) = 2
          /\ DraftsOf(project[i])[1]["url"] = Str(<<"u2">>)
          /\ DraftsOf(project[i])[2]["url"] = Str(<<"u1">>)

\* C5: upload-draft, add-comment and approve answer 404 whenever the path id
\* names no stored project, and succeed only when it names one.
C5_NotFoundWhenAbsent ==
    resp.op \in MutatingOps =>
        /\ NoSuchProject(resp) => resp.status = 404
        /\ resp.status = 200 => ~NoSuchProject(resp)

\* C4: get product by id answers 400 to a malformed id, 404 to a well-formed
\* id of no stored product, and the product to the id of a stored one.
C4_GetProductErrors ==
    resp.op = "get_product" =>
        IF ~ObjectIdValid(resp.arg)
        THEN resp.status = 400
        ELSE IF ~Found(find_one(product, [_id |-> ObjectId(resp.arg)]))
        THEN resp.status = 404
        ELSE /\ resp.status = 200
             /\ resp.body = Dict(serialize_doc(
                    find_one(product, [_id |-> ObjectId(resp.arg)])))

\* C6: the featured endpoint returns only featured products, at most limit
\* of them, each rated no lower than the one after it.
C6_FeaturedByRating ==
    resp.op = "featured_products" =>
        LET out == resp.body[2]
        IN /\ \A i \in DOMAIN out : out[i]["featured"] = Bool(TRUE)
           /\ Len(out) <= resp.data[2]
           /\ \A i \in 1..(Len(out) - 1) :
                 out[i]["rating"][2] >= out[i + 1]["rating"][2]

\* C7: serializing a serialized document returns it unchanged: the same id,
\* and no _id.
C7_SerializeIdempotent ==
    reser # NoDoc =>
        /\ "_id" \notin DOMAIN reser
        /\ reser["id"] = resp.body[2]["id"]
        /\ reser = resp.body[2]

\* C8: a request answered with InvalidInput (400, 422) or NotFound (404)
\* leaves every collection as it was, and no request adds more than one
\* document or entry to the store.
C8_RejectedLeavesStore ==
    [][/\ resp'.status \in {400, 404, 422} => store' = store
       /\ StoreSize' <= StoreSize + 1]_vars

\* an upload to a missing project answered 404, beside a stored project
C8_Witness ==
    /\ resp.op = "upload_draft"
    /\ resp.status = 404
    /\ project # <<>>

\* the requests whose update the store has applied to the project with id pid
Applied(op, pid) ==
    {r \in 1..MaxReqs : /\ reqs[r].op = op
                         /\ reqs[r].matched = 1
                         /\ reqs[r].pid = pid}
Done == \A r \in 1..MaxReqs : reqs[r].pc = "done"

\* C9: under any interleaving no append is lost or duplicated.  At every
\* moment a project's drafts hold exactly one entry per upload-draft the
\* store has applied to it and its comments one per add-comment: as many
\* entries as requests, and each request's entry as often as requests sent
\* it; a request is answered 200 exactly when its update was applied.
C9_NoLostAppend ==
    \A i \in DOMAIN project :
        LET pid == PyStr(project[i]["_id"])
            d == DraftsOf(project[i])
            c == CommentsOf(project[i])
            ups == Applied("upload_draft", pid)
            cms == Applied("add_comment", pid)
        IN /\ Len(d) = Cardinality(ups)
           /\ Len(c) = Cardinality(cms)
           /\ \A r \in ups :
                 Cardinality({k \in DOMAIN d :
                     d[k] = DraftUpdate(reqs[r].url, reqs[r].now).push["drafts"]})
                 = Cardinality({q \in ups : /\ reqs[q].url = reqs[r].url
                                             /\ reqs[q].now = reqs[r].now})
           /\ \A r \in cms :
                 Cardinality({k \in DOMAIN c :
                     c[k]["created_at"] = Datetime(reqs[r].now)})
                 = Cardinality({q \in cms : reqs[q].now = reqs[r].now})
           /\ \A r \in 1..MaxReqs :
                 (reqs[r].op \in {"upload_draft", "add_comment"}
                     /\ reqs[r].pc = "done")
                 => (reqs[r].status = 200 <=> reqs[r].matched = 1)

\* two uploads of the same url at the same reading, both answered 200
C9_Witness ==
    /\ Done
    /\ \E r, q \in 1..MaxReqs :
          /\ r # q
          /\ reqs[r].op = "upload_draft" /\ reqs[q].op = "upload_draft"
          /\ reqs[r].status = 200 /\ reqs[q].status = 200
          /\ reqs[r].url = reqs[q].url /\ reqs[r].now = reqs[q].now

\* C10 as claimed: in every reachable state a project's updated_at is no
\* earlier than the uploaded_at of each of its drafts and the created_at of
\* each of its comments, and uploaded_at does not decrease along drafts.
C10_UpdatedAtLatest ==
    \A i \in DOMAIN project :
        LET d == DraftsOf(project[i])
            c == CommentsOf(project[i])
        IN /\ \A k \in DOMAIN d :
                 project[i]["updated_at"][2] >= d[k]["uploaded_at"][2]
           /\ \A k \in DOMAIN c :
                 project[i]["updated_at"][2] >= c[k]["created_at"][2]
           /\ \A k \in 1..(Len(d) - 1) :
                 d[k]["uploaded_at"][2] <= d[k + 1]["uploaded_at"][2]

\* C10 amended: every draft upload and comment writes updated_at with its own
\* clock reading.  When the store applies an upload-draft, the project's
\* updated_at becomes the uploaded_at of the draft it appends; when it
\* applies an add-comment, updated_at becomes a reading no earlier than the
\* created_at of the comment it appends.
C10_UpdatedAtOfLastApplied ==
    [][\A i \in DOMAIN project :
          LET d2 == DraftsOf(project'[i])
              c2 == CommentsOf(project'[i])
              u2 == Get(project'[i], "updated_at")
          IN /\ Len(d2) > Len(DraftsOf(project[i])) =>
                   u2 = Last(d2)["uploaded_at"]
             /\ Len(c2) > Len(CommentsOf(project[i])) =>
                   /\ IsDatetime(u2)
                   /\ u2[2] >= Last(c2)["created_at"][2]]_vars

\* a draft read at a later time applied first: updated_at is the reading of
\* the draft applied last, earlier than that of the first draft
C10_Witness ==
    \E i \in DOMAIN project :
        LET d == DraftsOf(project[i])
        IN /\ Len(d) = 2
           /\ d[1]["uploaded_at"] = Datetime(1)
           /\ d[2]["uploaded_at"] = Datetime(0)
           /\ project[i]["updated_at"] = Datetime(0)

====
